---- MODULE Spec2Model ----
(***************************************************************************)
(* A model of src/script.js, the interaction script of a portfolio page.   *)
(* The script is a flat collection of initialisers that share nothing but  *)
(* the window's timer table, so each component has its own specification   *)
(* (SpecDebounce, SpecForm, SpecNav, SpecScrolled, SpecObs, SpecCounter,    *)
(* SpecTyping, SpecMenu)                                                   *)
(* over the same variables; a specification leaves the other components'   *)
(* variables at their idle values.                                         *)
(*                                                                         *)
(* Strings the code inspects character by character (field values, ids,    *)
(* hrefs, counter texts, typed phrases) are sequences of one-character     *)
(* strings.  Time is kept as the remaining milliseconds of every pending   *)
(* timer; a timer runs when its remaining time is 0 and time does not      *)
(* advance past a due timer.                                               *)
(***************************************************************************)
EXTENDS Integers, Sequences, FiniteSets, TLC

VARIABLES
    timers,      \* the window's pending timeouts and intervals
    last,        \* history: name of the last handler or step that ran
    lastArg,     \* history: the element or field that step was about
    \* ---- debounce(fn, delay), src/script.js:22-28
    delay,       \* the wrapper's delay parameter
    timer,       \* the closure variable `timer` (0: undefined)
    nCalls,      \* history: number of wrapper calls so far
    sinceCall,   \* history: ms since the last wrapper call (capped)
    lastArgs,    \* history: arguments of the last wrapper call
    burstLen,    \* history: wrapper calls in the current burst
    burstFires,  \* history: fn invocations since the current burst began
    fnArgs,      \* history: arguments of the last fn invocation
    fnAt,        \* history: sinceCall at the last fn invocation
    \* ---- initContactForm, src/script.js:249-296
    hasBtn,      \* $('#submitBtn') is an element
    hasSuccess,  \* $('#formSuccess') is an element
    hasEmail,    \* $('#email') is an element
    value,       \* field.value of every form field
    borderColor, \* field.style.borderColor of every form field
    inputOnce,   \* number of once-only input listeners on every field
    focused,     \* the field that has focus ("none": none of them)
    disabled,    \* btn.disabled
    btnLabel,    \* text of the button's span
    successShown,\* success.classList has 'show'
    nSubmits,    \* history: submit events handled so far
    markPending, \* history: fields marked as empty and not typed in since
    sinceShow,   \* history: ms since the indicator became shown (capped)
    overlapped,  \* history: a send was started while another was pending
    thrown,      \* history: a run of the submit listener ended in a TypeError
    \* ---- initNavbar, src/script.js:87-124
    sections,    \* $$('section[id]') in document order: [id, offsetTop]
    navLinks,    \* $$('.nav-link') in document order: the href of each
    innerHeight, \* window.innerHeight
    scrollY,     \* window.scrollY
    navActive,   \* the links (by position) whose classList has 'active'
    navScrolled, \* navbar.classList has 'scrolled'
    \* ---- initReveal, initSkillBars, initCounters, src/script.js:178-224, 387-414
    inView,      \* per observed kind of element: it intersects the viewport
    observed,    \* the elements the three IntersectionObservers observe
    visible,     \* the reveal elements whose classList has 'visible'
    barData,     \* bar.dataset.width of every skill bar (<<>>: not set)
    barWidth,    \* bar.style.width of every skill bar
    counterText, \* el.textContent of every counter
    counting,    \* per running interval (by handle): el, start, end, step, suffix
    counterOrig, \* history: the text every counter started with
    fired,       \* history: elements whose own intersecting entry took effect
    nIntervals,  \* history: setInterval calls per counter
    counterTicks,\* history: interval callbacks run per counter
    returned,    \* history: the element that last came into view again, unobserved
    \* ---- initTypingEffect, src/script.js:311-353
    words,       \* the list of phrases
    wordIdx,
    charIdx,
    deleting,
    paused,
    heroText,    \* el.textContent of .hero-roles
    sinceChange, \* history: ms since the hero text last changed (or since the start)
    lastChange,  \* history: "none", "grow" or "shrink", the last change of the hero text
    nWraps,      \* history: 1 once the word index has wrapped to 0, else 0
    \* ---- initHamburger and the resize handler, src/script.js:130-153, 463-474
    hasHamburger,\* $('#hamburger') is an element
    hasMenu,     \* $('#mobileMenu') is an element
    hasLinks,    \* $$('.mobile-link') is not empty
    menuOpen,    \* menu.classList has 'open'
    btnOpen,     \* the hamburger button's classList has 'open'
    ariaExpanded,\* the button's aria-expanded attribute ("unset": absent)
    overflow,    \* document.body.style.overflow
    innerWidth,  \* window.innerWidth
    nClicks      \* history: clicks on the hamburger button (capped)

dbVars == <<delay, timer, nCalls, sinceCall, lastArgs, burstLen, burstFires,
           fnArgs, fnAt>>

formVars == <<hasBtn, hasSuccess, hasEmail, value, borderColor, inputOnce, focused,
             disabled, btnLabel, successShown, nSubmits, markPending, sinceShow,
             overlapped, thrown>>

dbHistory == <<nCalls, sinceCall, lastArgs, burstLen, burstFires, fnArgs, fnAt>>

navVars == <<sections, navLinks, innerHeight, scrollY, navActive, navScrolled>>

obsVars == <<inView, observed, visible, barData, barWidth, counterText, counting,
            counterOrig, fired, nIntervals, counterTicks, returned>>

typingVars == <<words, wordIdx, charIdx, deleting, paused, heroText, sinceChange,
               lastChange, nWraps>>

menuVars == <<hasHamburger, hasMenu, hasLinks, menuOpen, btnOpen, ariaExpanded,
             overflow, innerWidth, nClicks>>

vars == <<timers, last, lastArg, dbVars, formVars, navVars, obsVars, typingVars,
         menuVars>>

\* What the actions of one component leave alone.
notDebounce == <<formVars, navVars, obsVars, typingVars, menuVars>>

notForm == <<last, lastArg, dbVars, navVars, obsVars, typingVars, menuVars>>

notNav == <<lastArg, dbHistory, formVars, obsVars, typingVars, menuVars>>

notObs == <<last, lastArg, dbVars, formVars, navVars, typingVars, menuVars>>

notTyping == <<last, lastArg, dbVars, formVars, navVars, obsVars, menuVars>>

notMenu == <<last, lastArg, dbHistory, formVars, navVars, obsVars, typingVars>>

----------------------------------------------------------------------------
(* Bounds of the model.                                                     *)

MaxDelay == 3
MaxCalls == 4
MaxArg == 2
MaxSubmits == 3
Grain == 2
MaxSections == 2
MaxLinks == 2
NumReveal == 2
MaxTarget == 72
MaxClicks == 2

(* Program constants.                                                       *)
SendDelay == 1800
HideDelay == 5000
NavDelay == 20
ScrolledPast == 60
StaggerMs == 90
CounterMs == 38
CounterSteps == 35

----------------------------------------------------------------------------
(* Small helpers.                                                           *)

Max(S) == CHOOSE x \in S : \A y \in S : y <= x

Min(S) == CHOOSE x \in S : \A y \in S : x <= y

----------------------------------------------------------------------------
(* The window's timer table.  A timer is                                    *)
(*   [id, delay, rem, cb, arg, every]                                       *)
(* id: the handle setTimeout/setInterval returned; delay: the requested ms; *)
(* rem: ms until it is due; cb: which callback; arg: what the callback      *)
(* closed over; every: TRUE for setInterval.                                *)

\* A handle the table does not use and no closure still holds.
NewId(ts, held) == Min({i \in 1..(Cardinality(ts) + Cardinality(held) + 1) :
                          i \notin held /\ \A t \in ts : t.id # i})

SetTimeout(ts, held, cb, arg, ms) ==
    ts \cup {[id |-> NewId(ts, held), delay |-> ms, rem |-> ms,
              cb |-> cb, arg |-> arg, every |-> FALSE]}

SetInterval(ts, held, cb, arg, ms) ==
    ts \cup {[id |-> NewId(ts, held), delay |-> ms, rem |-> ms,
              cb |-> cb, arg |-> arg, every |-> TRUE]}

\* A mutant of ClearTimeout: the pending call is not cancelled.
ClearTimeoutSkipped(ts, id) == ts

\* clearTimeout(id) / clearInterval(id): no effect when id names no pending timer.
ClearTimeout(ts, id) == {t \in ts : t.id # id}

Due(ts) == {t \in ts : t.rem = 0}

MinRem(ts) == Min({t.rem : t \in ts})

Elapse(ts, dt) == {[t EXCEPT !.rem = @ - dt] : t \in ts}

\* A timeout leaves the table when it runs; an interval is re-armed.
AfterRun(ts, t) ==
    IF t.every THEN (ts \ {t}) \cup {[t EXCEPT !.rem = t.delay]} ELSE ts \ {t}

----------------------------------------------------------------------------
(* The idle values of each component's variables.                           *)

IdleDebounce ==
    /\ delay = 0
    /\ timer = 0
    /\ nCalls = 0
    /\ sinceCall = 0
    /\ lastArgs = 0
    /\ burstLen = 0
    /\ burstFires = 0
    /\ fnArgs = 0
    /\ fnAt = 0

IdleForm ==
    /\ hasBtn = FALSE
    /\ hasSuccess = FALSE
    /\ hasEmail = FALSE
    /\ value = <<>>
    /\ borderColor = <<>>
    /\ inputOnce = <<>>
    /\ focused = "none"
    /\ disabled = FALSE
    /\ btnLabel = ""
    /\ successShown = FALSE
    /\ nSubmits = 0
    /\ markPending = {}
    /\ sinceShow = 0
    /\ overlapped = FALSE
    /\ thrown = FALSE

IdleNav ==
    /\ sections = <<>>
    /\ navLinks = <<>>
    /\ innerHeight = 0
    /\ scrollY = 0
    /\ navActive = {}
    /\ navScrolled = FALSE

IdleObs ==
    /\ inView = <<>>
    /\ observed = {}
    /\ visible = {}
    /\ barData = <<>>
    /\ barWidth = <<>>
    /\ counterText = <<>>
    /\ counting = <<>>
    /\ counterOrig = <<>>
    /\ fired = {}
    /\ nIntervals = <<>>
    /\ counterTicks = <<>>
    /\ returned = <<"none", 0>>

IdleTyping ==
    /\ words = <<>>
    /\ wordIdx = 0
    /\ charIdx = 0
    /\ deleting = FALSE
    /\ paused = FALSE
    /\ heroText = <<>>
    /\ sinceChange = 0
    /\ lastChange = "none"
    /\ nWraps = 0

IdleMenu ==
    /\ hasHamburger = FALSE
    /\ hasMenu = FALSE
    /\ hasLinks = FALSE
    /\ menuOpen = FALSE
    /\ btnOpen = FALSE
    /\ ariaExpanded = "unset"
    /\ overflow = ""
    /\ innerWidth = 0
    /\ nClicks = 0

----------------------------------------------------------------------------
(* debounce(fn, delay): the returned wrapper.                               *)

\* (...args) => { clearTimeout(timer); timer = setTimeout(() => fn(...args), delay); }
WrapperTimers(cb, a) == SetTimeout(ClearTimeout(timers, timer), {timer}, cb, a, delay)

WrapperTimer == NewId(ClearTimeout(timers, timer), {timer})

InitDebounce ==
    /\ delay \in 0..MaxDelay
    /\ timer = 0
    /\ nCalls = 0
    /\ sinceCall = 0
    /\ lastArgs = 0
    /\ burstLen = 0
    /\ burstFires = 0
    /\ fnArgs = 0
    /\ fnAt = 0

\* A call of the wrapper with argument a.
Call(a) ==
    /\ nCalls < MaxCalls
    /\ timers' = WrapperTimers("fn", a)
    /\ timer' = WrapperTimer
    /\ nCalls' = nCalls + 1
    /\ sinceCall' = 0
    /\ lastArgs' = a
    /\ burstLen' = IF nCalls = 0 \/ sinceCall >= delay THEN 1 ELSE burstLen + 1
    /\ burstFires' = IF nCalls = 0 \/ sinceCall >= delay THEN 0 ELSE burstFires
    /\ last' = "call"
    /\ lastArg' = a
    /\ UNCHANGED <<delay, fnArgs, fnAt>>
    /\ UNCHANGED notDebounce

\* The scheduled () => fn(...args) runs.
FnFire ==
    \E t \in Due(timers) :
        /\ t.cb = "fn"
        /\ timers' = AfterRun(timers, t)
        /\ burstFires' = burstFires + 1
        /\ fnArgs' = t.arg
        /\ fnAt' = sinceCall
        /\ last' = "fn"
        /\ lastArg' = t.arg
        /\ UNCHANGED <<delay, timer, nCalls, sinceCall, lastArgs, burstLen>>
        /\ UNCHANGED notDebounce

\* One millisecond passes; a due timer runs first.
TickDebounce ==
    /\ Due(timers) = {}
    /\ timers' = Elapse(timers, 1)
    /\ sinceCall' = IF sinceCall <= delay THEN sinceCall + 1 ELSE sinceCall
    /\ last' = "tick"
    /\ lastArg' = 0
    /\ UNCHANGED <<delay, timer, nCalls, lastArgs, burstLen, burstFires, fnArgs, fnAt>>
    /\ UNCHANGED notDebounce

NextDebounce ==
    \/ \E a \in 1..MaxArg : Call(a)
    \/ FnFire
    \/ TickDebounce

InitSpecDebounce ==
    /\ timers = {}
    /\ last = "init"
    /\ lastArg = 0
    /\ InitDebounce
    /\ IdleForm
    /\ IdleNav
    /\ IdleObs
    /\ IdleTyping
    /\ IdleMenu

SpecDebounce == InitSpecDebounce /\ [][NextDebounce]_vars

----------------------------------------------------------------------------
(* Strings.                                                                 *)

Whitespace == {" ", "\t", "\n"}

\* A mutant of Trim: the value is tested as typed.
TrimNothing(s) == s

\* String.prototype.trim: strip the whitespace at both ends.
RECURSIVE Trim(_)
Trim(s) ==
    IF s = <<>> THEN s
    ELSE IF Head(s) \in Whitespace THEN Trim(Tail(s))
    ELSE IF s[Len(s)] \in Whitespace THEN Trim(SubSeq(s, 1, Len(s) - 1))
    ELSE s

\* [^\s@]
PlainChar(c) == c \notin Whitespace /\ c # "@"

\* /^[^\s@]+@[^\s@]+\.[^\s@]+$/.test(s)
EmailRx(s) ==
    \E i \in 1..Len(s), j \in 1..Len(s) :
        /\ s[i] = "@"
        /\ s[j] = "."
        /\ 1 < i
        /\ i + 1 < j
        /\ j < Len(s)
        /\ \A k \in 1..Len(s) : k # i => PlainChar(s[k])

----------------------------------------------------------------------------
(* The contact form: the submit listener and the timers it starts.          *)

Invalid == "rgba(252, 90, 90, 0.7)"

\* What the user can have typed into a field.
Values == { <<>>, <<" ">>, <<"a", "@", "b">>, <<"a", "@", "b", ".", "c">> }

\* $$('[required]', form): the form's fields, all of them required.
FormFields == IF hasEmail THEN {"name", "email"} ELSE {"name"}

\* !field.value.trim()
EmptyFields == {f \in FormFields : Trim(value[f]) = <<>>}

\* A mutant of EmailRejected: the format check is left out.
EmailNeverRejected == FALSE

\* emailEl && !emailRx.test(emailEl.value)
EmailRejected == hasEmail /\ ~EmailRx(value["email"])

InitForm ==
    /\ hasBtn \in BOOLEAN
    /\ hasSuccess \in BOOLEAN
    /\ hasEmail \in BOOLEAN
    /\ value = [f \in FormFields |-> <<>>]
    /\ borderColor = [f \in FormFields |-> ""]
    /\ inputOnce = [f \in FormFields |-> 0]
    /\ focused = "none"
    /\ disabled = FALSE
    /\ btnLabel = "Send Message"
    /\ successShown = FALSE
    /\ nSubmits = 0
    /\ markPending = {}
    /\ sinceShow = 0
    /\ overlapped = FALSE
    /\ thrown = FALSE

\* The user types in field f: its value becomes v and an input event is
\* dispatched, which runs (and removes) the field's once-only listeners.
Input(f, v) ==
    /\ v # value[f]
    /\ value' = [value EXCEPT ![f] = v]
    /\ borderColor' = IF inputOnce[f] > 0 THEN [borderColor EXCEPT ![f] = ""]
                      ELSE borderColor
    /\ inputOnce' = [inputOnce EXCEPT ![f] = 0]
    /\ focused' = f
    /\ markPending' = markPending \ {f}
    /\ UNCHANGED <<timers, hasBtn, hasSuccess, hasEmail, disabled, btnLabel,
                   successShown, nSubmits, sinceShow, overlapped, thrown>>
    /\ UNCHANGED notForm

\* The submit listener, lines 255-295.
Submit ==
    /\ nSubmits < MaxSubmits
    /\ nSubmits' = nSubmits + 1
    /\ UNCHANGED <<hasBtn, hasSuccess, hasEmail, value, successShown, sinceShow>>
    /\ UNCHANGED notForm
    /\ IF EmptyFields # {}
       THEN \* lines 260-267
            /\ borderColor' = [f \in FormFields |->
                                 IF f \in EmptyFields THEN Invalid ELSE borderColor[f]]
            /\ inputOnce' = [f \in FormFields |->
                               IF f \in EmptyFields THEN inputOnce[f] + 1 ELSE inputOnce[f]]
            /\ markPending' = markPending \cup EmptyFields
            /\ UNCHANGED <<timers, focused, disabled, btnLabel, overlapped, thrown>>
       ELSE IF EmailRejected
       THEN \* lines 272-276
            /\ borderColor' = [borderColor EXCEPT !["email"] = Invalid]
            /\ focused' = "email"
            /\ UNCHANGED <<timers, inputOnce, markPending, disabled, btnLabel,
                           overlapped, thrown>>
       ELSE IF ~hasBtn
       THEN \* line 279: btn is null, btn.querySelector throws a TypeError
            /\ thrown' = TRUE
            /\ UNCHANGED <<timers, borderColor, inputOnce, markPending, focused,
                           disabled, btnLabel, overlapped>>
       ELSE \* lines 279-294
            /\ disabled' = TRUE
            /\ btnLabel' = "Sending"
            /\ timers' = SetTimeout(timers, {}, "send", 0, SendDelay)
            /\ overlapped' = (overlapped \/ \E t \in timers : t.cb = "send")
            /\ UNCHANGED <<borderColor, inputOnce, markPending, focused, thrown>>

\* The 1800 ms callback, lines 285-294.
SendDone ==
    \E t \in Due(timers) :
        /\ t.cb = "send"
        /\ value' = [f \in FormFields |-> <<>>]
        /\ disabled' = FALSE
        /\ btnLabel' = "Send Message"
        /\ successShown' = (hasSuccess \/ successShown)
        /\ sinceShow' = IF hasSuccess /\ ~successShown THEN 0 ELSE sinceShow
        /\ timers' = SetTimeout(AfterRun(timers, t), {}, "hide", 0, HideDelay)
        /\ UNCHANGED <<hasBtn, hasSuccess, hasEmail, borderColor, inputOnce, focused,
                       nSubmits, markPending, overlapped, thrown>>
        /\ UNCHANGED notForm

\* The 5000 ms callback, line 293.
HideSuccess ==
    \E t \in Due(timers) :
        /\ t.cb = "hide"
        /\ successShown' = FALSE
        /\ timers' = AfterRun(timers, t)
        /\ UNCHANGED <<hasBtn, hasSuccess, hasEmail, value, borderColor, inputOnce,
                       focused, disabled, btnLabel, nSubmits, markPending, sinceShow,
                       overlapped, thrown>>
        /\ UNCHANGED notForm

\* Time passes, at most to the next due timer.
FormStep == SendDelay \div 2

AdvanceForm ==
    /\ timers # {}
    /\ Due(timers) = {}
    /\ LET dt == Min({FormStep, MinRem(timers)})
       IN /\ timers' = Elapse(timers, dt)
          /\ sinceShow' = IF successShown THEN Min({sinceShow + dt, HideDelay + 1})
                          ELSE sinceShow
    /\ UNCHANGED <<hasBtn, hasSuccess, hasEmail, value, borderColor, inputOnce,
                   focused, disabled, btnLabel, successShown, nSubmits, markPending,
                   overlapped, thrown>>
    /\ UNCHANGED notForm

NextForm ==
    \/ \E f \in FormFields, v \in Values : Input(f, v)
    \/ Submit
    \/ SendDone
    \/ HideSuccess
    \/ AdvanceForm

InitSpecForm ==
    /\ timers = {}
    /\ last = "init"
    /\ lastArg = "form"
    /\ InitForm
    /\ IdleDebounce
    /\ IdleNav
    /\ IdleObs
    /\ IdleTyping
    /\ IdleMenu

SpecForm == InitSpecForm /\ [][NextForm]_vars

----------------------------------------------------------------------------
(* Vocabulary of the contact-form claims, stated on the form's state alone. *)

\* The value is empty once trimmed: it holds nothing but whitespace.
Blank(s) == \A i \in 1..Len(s) : s[i] \in Whitespace

\* This step handles a submit event.
SubmitStep == nSubmits' = nSubmits + 1

\* This step is an input event on field f.
InputStep(f) == value'[f] # value[f] /\ focused' = f /\ timers' = timers

SendTimers(ts) == {t \in ts : t.cb = "send"}

\* This step runs the callback of a 1800 ms timer.
SendDoneStep == \E t \in SendTimers(timers) : t.rem = 0 /\ t \notin timers'

\* Every required field is filled and the email, if there is one, is well formed.
AllValid ==
    /\ \A f \in FormFields : ~Blank(value[f])
    /\ hasEmail => EmailRx(value["email"])

\* C2: a valid submission disables the submit control at once, the control
\* stays disabled as long as a 1800 ms timer is pending, and the step that
\* runs the timer resets the form, re-enables the control and shows the
\* success indicator.  (The code breaks the second part: see C18.)
C2_ValidSubmission ==
    [][hasBtn =>
        /\ (SubmitStep /\ AllValid) => disabled'
        /\ SendTimers(timers') # {} => disabled'
        /\ SendDoneStep =>
              /\ \A f \in FormFields : value'[f] = <<>>
              /\ ~disabled'
              /\ hasSuccess => successShown'
      ]_vars

\* C3: whenever the success indicator is hidden, it has been shown for the
\* full 5000 ms since it became shown.  (Stated for the submissions a user
\* makes one after the other, each after the previous send has completed.)
C3_ShownForHideDelay ==
    [][(~overlapped /\ successShown /\ ~successShown') => sinceShow = HideDelay]_vars

\* C4: a submit event handled while some required field is blank starts no
\* send (control, timers, field values and success indicator unchanged) and
\* marks every blank required field invalid; the next input event on a field
\* marked this way clears its mark.
C4_EmptyRequired ==
    [][/\ (SubmitStep /\ \E f \in FormFields : Blank(value[f])) =>
              /\ disabled' = disabled
              /\ timers' = timers
              /\ value' = value
              /\ successShown' = successShown
              /\ \A f \in FormFields : Blank(value[f]) => borderColor'[f] = Invalid
       /\ \A f \in FormFields :
              (f \in markPending /\ InputStep(f)) => borderColor'[f] = ""
      ]_vars

\* A whitespace-only required field has been marked by a submit event.
C4_Witness ==
    \E f \in FormFields :
        /\ value[f] = <<" ">>
        /\ f \in markPending
        /\ borderColor[f] = Invalid
        /\ nSubmits = 1
        /\ timers = {}
        /\ ~disabled

\* C5: a submit event handled with every required field filled and an email
\* value the pattern rejects starts no send, marks the email field invalid
\* and focuses it; field values and the control's enabled state are unchanged.
C5_InvalidEmail ==
    [][(/\ SubmitStep
        /\ hasEmail
        /\ \A f \in FormFields : ~Blank(value[f])
        /\ ~EmailRx(value["email"])) =>
              /\ timers' = timers
              /\ borderColor'["email"] = Invalid
              /\ focused' = "email"
              /\ value' = value
              /\ disabled' = disabled
              /\ successShown' = successShown
      ]_vars

\* "a@b" (no top-level part) was submitted while the name field had focus.
C5_Witness ==
    /\ hasEmail
    /\ value["email"] = <<"a", "@", "b">>
    /\ ~Blank(value["name"])
    /\ borderColor["email"] = Invalid
    /\ "email" \notin markPending
    /\ focused = "email"
    /\ nSubmits = 1
    /\ timers = {}
    /\ ~disabled

\* A send is started in this step.
SendStarts == \E t \in SendTimers(timers') : t \notin timers /\ t.rem = SendDelay

\* C12: with the form present, whichever of the submit button, the success
\* indicator and the email field are absent, a submit event handled with
\* every field valid raises no fault and starts the simulated send.
C12_MissingTolerated ==
    [][(SubmitStep /\ AllValid) => (~thrown' /\ SendStarts)]_vars

\* C18: at most one 1800 ms timer is pending at any time, and the submit
\* control is disabled exactly while one is pending.
C18_OneSendInFlight ==
    hasBtn =>
        /\ Cardinality(SendTimers(timers)) <= 1
        /\ disabled <=> SendTimers(timers) # {}

\* C19: when a submit event passes validation and starts the send, and when
\* that send completes and resets the form, no field is marked invalid.
C19_NoStaleMarker ==
    [][(SendStarts \/ SendDoneStep) =>
           \A f \in FormFields : borderColor'[f] # Invalid]_vars

----------------------------------------------------------------------------
(* The navbar: the debounced scroll handler and updateActiveNavLink.        *)

SectionIds == { <<"a">>, <<"b">> }

OffsetTops == {30, 90}

Hrefs == { <<"#">>, <<"#", "a">>, <<"#", "b">> }

ScrollYs == {0, 60, 61}

InnerHeights == {100}

SeqsUpTo(S, n) == UNION {[1..k -> S] : k \in 0..n}

\* sec.offsetTop <= window.scrollY + window.innerHeight * 0.3, in tenths of a pixel
InView(sec) == sec.offsetTop * 10 <= scrollY * 10 + innerHeight * 3

\* let current = ''; sections.forEach(sec => { if (...) current = sec.id; });
RECURSIVE ScanSections(_, _)
ScanSections(secs, current) ==
    IF secs = <<>> THEN current
    ELSE ScanSections(Tail(secs), IF InView(Head(secs)) THEN Head(secs).id ELSE current)

\* A mutant of ActiveLinks: 'active' is added and never removed.
ActiveLinksKept == navActive \cup
    {i \in 1..Len(navLinks) : navLinks[i] = <<"#">> \o ScanSections(sections, <<>>)}

\* navLinks.forEach: remove 'active', add it again when href === '#' + current
ActiveLinks ==
    {i \in 1..Len(navLinks) : navLinks[i] = <<"#">> \o ScanSections(sections, <<>>)}

\* A mutant of PastThreshold: 60 px count as scrolled.
PastThresholdIncl(y) == y >= ScrolledPast

\* window.scrollY > 60
PastThreshold(y) == y > ScrolledPast

InitNav ==
    /\ sections \in SeqsUpTo([id : SectionIds, offsetTop : OffsetTops], MaxSections)
    /\ navLinks \in SeqsUpTo(Hrefs, MaxLinks)
    /\ innerHeight \in InnerHeights
    /\ scrollY = 0
    /\ navActive \in SUBSET (1..Len(navLinks))
    /\ navScrolled = FALSE
    \* handleScroll() at line 102 has scheduled the first run
    /\ delay = NavDelay
    /\ timer = NewId({}, {0})
    /\ timers = SetTimeout({}, {0}, "handleScroll", 0, NavDelay)

\* The page is scrolled to y: a scroll event calls the debounced handleScroll.
Scroll(y) ==
    /\ y # scrollY
    /\ scrollY' = y
    /\ timers' = WrapperTimers("handleScroll", 0)
    /\ timer' = WrapperTimer
    /\ last' = "scroll"
    /\ UNCHANGED <<delay, sections, navLinks, innerHeight, navActive, navScrolled>>
    /\ UNCHANGED notNav

\* The debounced callback, lines 92-99, and updateActiveNavLink, lines 107-123.
HandleScroll ==
    \E t \in Due(timers) :
        /\ t.cb = "handleScroll"
        /\ timers' = AfterRun(timers, t)
        /\ navScrolled' = PastThreshold(scrollY)
        /\ navActive' = ActiveLinks
        /\ last' = "handleScroll"
        /\ UNCHANGED <<delay, timer, sections, navLinks, innerHeight, scrollY>>
        /\ UNCHANGED notNav

NavStep == NavDelay \div Grain

\* Time passes, at most to the next due timer.
AdvanceNav ==
    /\ timers # {}
    /\ Due(timers) = {}
    /\ timers' = Elapse(timers, Min({NavStep, MinRem(timers)}))
    /\ last' = "advance"
    /\ UNCHANGED <<delay, timer, navVars>>
    /\ UNCHANGED notNav

NextNav ==
    \/ \E y \in ScrollYs : Scroll(y)
    \/ HandleScroll
    \/ AdvanceNav

InitSpecNav ==
    /\ last = "init"
    /\ lastArg = 0
    /\ InitNav
    /\ nCalls = 0
    /\ sinceCall = 0
    /\ lastArgs = 0
    /\ burstLen = 0
    /\ burstFires = 0
    /\ fnArgs = 0
    /\ fnAt = 0
    /\ IdleForm
    /\ IdleObs
    /\ IdleTyping
    /\ IdleMenu

SpecNav == InitSpecNav /\ [][NextNav]_vars

----------------------------------------------------------------------------
(* Vocabulary of the navbar claims, stated on the page alone.               *)

\* The sections whose top is at or above 30% of the viewport height.
Reached == {k \in 1..Len(sections) :
              sections[k].offsetTop * 10 <= scrollY * 10 + innerHeight * 3}

\* Link i names the last reached section.
NamesLastReached(i) ==
    /\ Reached # {}
    /\ navLinks[i] = <<"#">> \o sections[Max(Reached)].id

\* Link i is the one the code compares to '#' + current.
MatchesCurrent(i) ==
    \/ NamesLastReached(i)
    \/ Reached = {} /\ navLinks[i] = <<"#">>

\* C6 as claimed: after updateActiveNavLink has run, exactly one link is active.
C6_ExactlyOneActive == last = "handleScroll" => Cardinality(navActive) = 1

\* C6 as amended: after updateActiveNavLink has run, as many links are active
\* as have the href '#' + id of the last reached section ('#' alone when no
\* section is reached): exactly one when exactly one link has that href, none
\* when no link has it.
C6_ActiveCount ==
    last = "handleScroll" =>
        Cardinality(navActive) = Cardinality({i \in 1..Len(navLinks) : MatchesCurrent(i)})

\* Two sections and a link for each: the handler has run at scroll position
\* 60 and only the second section's link is active.
C6_Witness ==
    /\ last = "handleScroll"
    /\ scrollY = 60
    /\ Len(sections) = 2
    /\ navLinks = << <<"#", "a">>, <<"#", "b">> >>
    /\ sections[2].id = <<"b">>
    /\ navActive = {2}

\* C7: after updateActiveNavLink has run, a link is active if and only if
\* its href names the last section in document order whose top offset is
\* <= scrollY + 30% of the viewport height; every other link is inactive.
C7_ActiveIffLastReached ==
    last = "handleScroll" =>
        \A i \in 1..Len(navLinks) : i \in navActive <=> NamesLastReached(i)

----------------------------------------------------------------------------
(* Numbers and their decimal text.                                          *)

Digits == <<"0", "1", "2", "3", "4", "5", "6", "7", "8", "9">>

IsDigit(c) == \E d \in 1..10 : Digits[d] = c

NotDigit(c) == ~IsDigit(c)

DigitValue(c) == (CHOOSE d \in 1..10 : Digits[d] = c) - 1

\* text.replace(/\D/g, '')
OnlyDigits(s) == SelectSeq(s, IsDigit)

\* text.replace(/[0-9]/g, '')
NonDigits(s) == SelectSeq(s, NotDigit)

NaN == -1

\* parseInt(digits, 10) of a string of digits: NaN for the empty string
RECURSIVE ParseDigits(_, _)
ParseDigits(ds, acc) ==
    IF ds = <<>> THEN acc ELSE ParseDigits(Tail(ds), acc * 10 + DigitValue(Head(ds)))

ParseInt(ds) == IF ds = <<>> THEN NaN ELSE ParseDigits(ds, 0)

\* String(n) for n >= 0
RECURSIVE ToStr(_)
ToStr(n) == IF n < 10 THEN <<Digits[n + 1]>> ELSE ToStr(n \div 10) \o <<Digits[(n % 10) + 1]>>

\* A mutant of CeilDiv: the quotient is rounded down.
FloorDiv(a, b) == a \div b

\* Math.ceil(a / b) for a >= 0, b > 0
CeilDiv(a, b) == (a + b - 1) \div b

RECURSIVE SortedSeq(_)
SortedSeq(S) == IF S = {} THEN <<>> ELSE <<Min(S)>> \o SortedSeq(S \ {Min(S)})

----------------------------------------------------------------------------
(* The three IntersectionObservers: reveal elements, skill bars, counters.  *)

Reveals == 1..NumReveal

Bars == {1}

Counters == {1}

\* The page's elements of the three kinds.
Elements == ({"reveal"} \X Reveals) \cup ({"bar"} \X Bars) \cup ({"counter"} \X Counters)

\* entry.target.parentElement: the reveal elements come in pairs of siblings.
RevealParent(r) == (r + 1) \div 2

\* parentElement.querySelectorAll('.reveal:not(.visible)'), in document order
Siblings(r) ==
    SortedSeq({x \in Reveals : RevealParent(x) = RevealParent(r) /\ x \notin visible})

\* siblings.forEach((el, idx) => setTimeout(() => el.classList.add('visible'), idx * 90))
RECURSIVE StaggerTimers(_, _, _)
StaggerTimers(ts, els, idx) ==
    IF els = <<>> THEN ts
    ELSE StaggerTimers(SetTimeout(ts, {}, "reveal", Head(els), idx * StaggerMs),
                       Tail(els), idx + 1)

\* A mutant of Unobserve: the element stays observed.
UnobserveForgotten(obs, e) == obs

\* observer.unobserve(entry.target)
Unobserve(obs, e) == obs \ {e}

\* The texts a counter can start with, small and large.
ObsTexts == { <<"3", "+">>, <<"0">>, <<"+">> }

Suffixes == { <<>>, <<"+">>, <<"%">> }

CounterTexts ==
    {ToStr(n) \o suf : n \in 0..MaxTarget, suf \in Suffixes}
        \cup { <<>>, <<"+">>, <<"0", "7", "+">>, <<"$", "5">>, <<"1", ",", "5", "k">> }

InitObs(texts) ==
    /\ timers = {}
    /\ inView = [e \in Elements |-> FALSE]
    /\ observed = Elements
    \* respectReducedMotion() may have made every reveal element visible
    /\ visible \in {{}, Reveals}
    /\ barData \in [Bars -> { <<>>, <<"9", "0">> }]
    /\ barWidth = [b \in Bars |-> <<>>]
    /\ counterText \in [Counters -> texts]
    /\ counterOrig = counterText
    /\ counting = {}
    /\ fired = {}
    /\ nIntervals = [c \in Counters |-> 0]
    /\ counterTicks = [c \in Counters |-> 0]
    /\ returned = <<"none", 0>>

\* Reveal element r crosses the threshold into view while observed: the
\* callback of lines 183-195 runs on its entry.
RevealEntry(r) ==
    LET e == <<"reveal", r>>
    IN /\ e \in observed
       /\ ~inView[e]
       /\ inView' = [inView EXCEPT ![e] = TRUE]
       /\ timers' = StaggerTimers(timers, Siblings(r), 0)
       /\ visible' = visible \cup {r}
       /\ observed' = Unobserve(observed, e)
       /\ fired' = fired \cup {e}
       /\ UNCHANGED <<barData, barWidth, counterText, counting, counterOrig,
                      nIntervals, counterTicks, returned>>
       /\ UNCHANGED notObs

\* Skill bar b comes into view while observed: lines 211-218.
BarEntry(b) ==
    LET e == <<"bar", b>>
    IN /\ e \in observed
       /\ ~inView[e]
       /\ inView' = [inView EXCEPT ![e] = TRUE]
       /\ barWidth' = [barWidth EXCEPT ![b] =
                         (IF barData[b] = <<>> THEN <<"8", "0">> ELSE barData[b]) \o <<"%">>]
       /\ observed' = Unobserve(observed, e)
       /\ fired' = fired \cup {e}
       /\ UNCHANGED <<timers, visible, barData, counterText, counting, counterOrig,
                      nIntervals, counterTicks, returned>>
       /\ UNCHANGED notObs

\* Counter c comes into view while observed: lines 391-410.
CounterEntry(c) ==
    LET e == <<"counter", c>>
        end == ParseInt(OnlyDigits(counterText[c]))
        suffix == NonDigits(counterText[c])
    IN /\ e \in observed
       /\ ~inView[e]
       /\ inView' = [inView EXCEPT ![e] = TRUE]
       /\ UNCHANGED <<visible, barData, barWidth, counterText, counterOrig, counterTicks,
                      returned>>
       /\ UNCHANGED notObs
       /\ IF end = NaN \/ end = 0
          THEN \* if (!end) return;
               UNCHANGED <<timers, observed, counting, fired, nIntervals>>
          ELSE /\ timers' = SetInterval(timers, {}, "count", c, CounterMs)
               /\ counting' = counting \cup
                     {[id |-> NewId(timers, {}), el |-> c, start |-> 0, end |-> end,
                       step |-> CeilDiv(end, CounterSteps), suffix |-> suffix]}
               /\ observed' = Unobserve(observed, e)
               /\ fired' = fired \cup {e}
               /\ nIntervals' = [nIntervals EXCEPT ![c] = @ + 1]

\* An element leaves the viewport; an observer's callback does nothing with
\* an entry that is not intersecting.
Leave(e) ==
    /\ inView[e]
    /\ inView' = [inView EXCEPT ![e] = FALSE]
    /\ UNCHANGED <<timers, observed, visible, barData, barWidth, counterText, counting,
                   counterOrig, fired, nIntervals, counterTicks, returned>>
    /\ UNCHANGED notObs

\* An element no observer observes any more comes into view: no callback runs.
Reenter(e) ==
    /\ e \notin observed
    /\ ~inView[e]
    /\ inView' = [inView EXCEPT ![e] = TRUE]
    /\ returned' = e
    /\ UNCHANGED <<timers, observed, visible, barData, barWidth, counterText, counting,
                   counterOrig, fired, nIntervals, counterTicks>>
    /\ UNCHANGED notObs

\* () => el.classList.add('visible'), line 189
RevealTimeout ==
    \E t \in Due(timers) :
        /\ t.cb = "reveal"
        /\ timers' = AfterRun(timers, t)
        /\ visible' = visible \cup {t.arg}
        /\ UNCHANGED <<inView, observed, barData, barWidth, counterText, counting,
                       counterOrig, fired, nIntervals, counterTicks, returned>>
        /\ UNCHANGED notObs

\* The interval callback, lines 402-406.
CounterTick ==
    \E t \in Due(timers) :
        /\ t.cb = "count"
        /\ LET run == CHOOSE r \in counting : r.id = t.id
               start == Min({run.start + run.step, run.end})
           IN /\ counterText' = [counterText EXCEPT ![run.el] = ToStr(start) \o run.suffix]
              /\ counterTicks' = [counterTicks EXCEPT ![run.el] = @ + 1]
              /\ IF start = run.end
                 THEN /\ timers' = ClearTimeout(AfterRun(timers, t), t.id)
                      /\ counting' = counting \ {run}
                 ELSE /\ timers' = AfterRun(timers, t)
                      /\ counting' = (counting \ {run}) \cup {[run EXCEPT !.start = start]}
        /\ UNCHANGED <<inView, observed, visible, barData, barWidth, counterOrig, fired,
                       nIntervals, returned>>
        /\ UNCHANGED notObs

\* Time passes until the next timer is due.
AdvanceObs ==
    /\ timers # {}
    /\ Due(timers) = {}
    /\ timers' = Elapse(timers, MinRem(timers))
    /\ UNCHANGED obsVars
    /\ UNCHANGED notObs

NextObs ==
    \/ \E r \in Reveals : RevealEntry(r)
    \/ \E b \in Bars : BarEntry(b)
    \/ \E c \in Counters : CounterEntry(c)
    \/ \E e \in Elements : Leave(e)
    \/ \E e \in Elements : Reenter(e)
    \/ RevealTimeout
    \/ CounterTick
    \/ AdvanceObs

InitSpecObs ==
    /\ last = "init"
    /\ lastArg = 0
    /\ InitObs(ObsTexts)
    /\ IdleDebounce
    /\ IdleForm
    /\ IdleNav
    /\ IdleTyping
    /\ IdleMenu

SpecObs == InitSpecObs /\ [][NextObs]_vars

CounterElements == {"counter"} \X Counters

NextCounter ==
    \/ \E c \in Counters : CounterEntry(c)
    \/ \E e \in CounterElements : Leave(e)
    \/ \E e \in CounterElements : Reenter(e)
    \/ CounterTick
    \/ AdvanceObs

InitSpecCounter ==
    /\ last = "init"
    /\ lastArg = 0
    /\ InitObs(CounterTexts)
    \* the page of this specification has counters only
    /\ visible = {}
    /\ barData = [b \in Bars |-> <<>>]
    /\ IdleDebounce
    /\ IdleForm
    /\ IdleNav
    /\ IdleTyping
    /\ IdleMenu

SpecCounter == InitSpecCounter /\ [][NextCounter]_vars

\* The timers fire and time passes: a due interval callback is run, and the
\* clock does not stop while a timer is pending.
SpecCounterFair == SpecCounter /\ WF_vars(CounterTick \/ AdvanceObs)

----------------------------------------------------------------------------
(* Observers and counters: the vocabulary of the properties.               *)

\* The element e crosses its observer's threshold in this step.
Crosses(e) == inView'[e] # inView[e]

\* What an observer's effect can touch.
effects == <<timers, visible, barWidth, counterText, counting>>

\* C8: once the effect of a reveal element, skill bar or counter has been
\* triggered by an intersecting entry, the element is no longer observed and
\* a later crossing of the threshold by it (leaving, coming back) changes no
\* timer, class, width or text; the 'visible' class of a reveal element is
\* never removed, and no counter ever starts a second interval.
C8_SingleFire ==
    [][/\ fired' \cap observed' = {}
       /\ \A e \in fired : Crosses(e) => UNCHANGED effects
       /\ visible \subseteq visible'
       /\ \A c \in Counters : nIntervals'[c] <= 1]_vars

\* Every kind of element has been triggered, the stagger and the count have
\* run to their end, and the counter has come into view again since.
C8_Witness ==
    /\ fired = Elements
    /\ returned = <<"counter", 1>>
    /\ inView[<<"counter", 1>>]
    /\ nIntervals[1] = 1
    /\ counterTicks[1] = 3
    /\ visible = Reveals
    /\ barWidth[1] = <<"9", "0", "%">>
    /\ timers = {}

\* The number a counter started from (its target) and the number it shows.
Target(c) == ParseInt(OnlyDigits(counterOrig[c]))

Shown(c) == ParseInt(OnlyDigits(counterText[c]))

CountTimers(ts, c) == {t \in ts : t.cb = "count" /\ t.arg = c}

\* The interval callback of counter c runs in this step.
TickStep(c) == counterTicks'[c] = counterTicks[c] + 1

\* The count of c has come to its end.
Counted(c) == counterTicks[c] > 0 /\ Shown(c) = Target(c)

\* What every step keeps, for a counter with a positive target: a tick shows
\* a number above 0 and above the one before, not above the target, it is
\* one of at most 35, and it clears the interval exactly when it shows the
\* target; nothing but a tick changes the text, and no tick follows the end.
CountsUp(c) ==
    /\ TickStep(c) =>
         /\ Shown(c)' > 0
         /\ counterTicks[c] > 0 => Shown(c)' > Shown(c)
         /\ Shown(c)' <= Target(c)
         /\ counterTicks'[c] <= CounterSteps
         /\ (Shown(c)' = Target(c)) <=> (CountTimers(timers', c) = {})
    /\ ~TickStep(c) => counterText'[c] = counterText[c]
    /\ Counted(c) => ~TickStep(c) /\ CountTimers(timers, c) = {}

\* C9: for every positive integer target the number a counter shows starts
\* above 0, grows at every 38 ms tick, never exceeds the target, shows
\* exactly the target after at most 35 ticks, and that tick clears the
\* interval, so that the text never changes afterwards; a count that was
\* started comes to its end.
C9_CountsToTarget ==
    /\ [][\A c \in Counters : Target(c) > 0 => CountsUp(c)]_vars
    /\ \A c \in Counters : (nIntervals[c] > 0) ~> Counted(c)
    /\ \A c \in Counters : [](Counted(c) => []Counted(c))

\* A count that needed all of its 35 ticks has shown its target and stopped.
C9_Witness ==
    /\ counterOrig[1] = <<"3", "5", "+">>
    /\ counterText[1] = <<"3", "5", "+">>
    /\ counterTicks[1] = CounterSteps
    /\ nIntervals[1] = 1
    /\ timers = {}

----------------------------------------------------------------------------
(* initTypingEffect(): the hero tagline, lines 311-353.                     *)

SoftwareDeveloper ==
    <<"S", "o", "f", "t", "w", "a", "r", "e", " ", "D", "e", "v", "e", "l",
      "o", "p", "e", "r">>

AIEnthusiast ==
    <<"A", "I", " ", "E", "n", "t", "h", "u", "s", "i", "a", "s", "t">>

ITSupportSpecialist ==
    <<"I", "T", " ", "S", "u", "p", "p", "o", "r", "t", " ", "S", "p", "e",
      "c", "i", "a", "l", "i", "s", "t">>

SEOContentManager ==
    <<"S", "E", "O", " ", "&", " ", "C", "o", "n", "t", "e", "n", "t", " ",
      "M", "a", "n", "a", "g", "e", "r">>

\* The list of the page, and the list of one phrase.
WordLists ==
    { <<SoftwareDeveloper, AIEnthusiast, ITSupportSpecialist, SEOContentManager>>,
      <<AIEnthusiast>> }

TypeSpeed == 95

DeleteSpeed == 55

PauseMs == 2000

StartMs == 1200

\* A mutant of Slice: the whole phrase.
SliceWhole(word, n) == word

\* word.slice(0, n)
Slice(word, n) ==
    SubSeq(word, 1, IF n < 0 THEN Max({Len(word) + n, 0}) ELSE Min({n, Len(word)}))

\* A mutant of NextWord: the index stays.
NextWordStuck(i, n) == i

\* (wordIdx + 1) % words.length
NextWord(i, n) == (i + 1) % n

\* el.textContent = ''; setTimeout(tick, 1200);
InitTyping ==
    /\ words \in WordLists
    /\ wordIdx = 0
    /\ charIdx = 0
    /\ deleting = FALSE
    /\ paused = FALSE
    /\ heroText = <<>>
    /\ timers = SetTimeout({}, {}, "tick", 0, StartMs)
    /\ sinceChange = 0
    /\ lastChange = "none"
    /\ nWraps = 0

\* The body of tick(), lines 326-348, run with the timers ts pending and
\* `deleting` holding del.
TickBody(ts, del) ==
    LET word == words[wordIdx + 1]
    IN IF ~del
       THEN /\ heroText' = Slice(word, charIdx + 1)
            /\ charIdx' = charIdx + 1
            /\ wordIdx' = wordIdx
            /\ deleting' = del
            /\ IF charIdx + 1 = Len(word)
               THEN /\ paused' = TRUE
                    /\ timers' = SetTimeout(ts, {}, "resume", 0, PauseMs)
               ELSE /\ paused' = FALSE
                    /\ timers' = SetTimeout(ts, {}, "tick", 0, TypeSpeed)
            /\ lastChange' = "grow"
       ELSE /\ heroText' = Slice(word, charIdx - 1)
            /\ charIdx' = charIdx - 1
            /\ deleting' = (charIdx - 1 # 0)
            /\ wordIdx' = IF charIdx - 1 = 0 THEN NextWord(wordIdx, Len(words)) ELSE wordIdx
            /\ paused' = FALSE
            /\ timers' = SetTimeout(ts, {}, "tick", 0,
                                    IF charIdx - 1 # 0 THEN DeleteSpeed ELSE TypeSpeed)
            /\ lastChange' = "shrink"

\* A timer set with setTimeout(tick, ...) runs; `paused` is false whenever
\* such a timer is pending.
TypingTick ==
    \E t \in Due(timers) :
        /\ t.cb = "tick"
        /\ ~paused
        /\ TickBody(AfterRun(timers, t), deleting)
        /\ sinceChange' = 0
        /\ nWraps' = IF wordIdx' < wordIdx \/ (Len(words) = 1 /\ heroText' = <<>>) THEN 1 ELSE nWraps
        /\ UNCHANGED words
        /\ UNCHANGED notTyping

\* () => { paused = false; deleting = true; tick(); }, line 334
TypingResume ==
    \E t \in Due(timers) :
        /\ t.cb = "resume"
        /\ TickBody(AfterRun(timers, t), TRUE)
        /\ sinceChange' = 0
        /\ nWraps' = IF wordIdx' < wordIdx \/ (Len(words) = 1 /\ heroText' = <<>>) THEN 1 ELSE nWraps
        /\ UNCHANGED words
        /\ UNCHANGED notTyping

\* Time passes until the pending timer is due.
AdvanceTyping ==
    /\ timers # {}
    /\ Due(timers) = {}
    /\ timers' = Elapse(timers, MinRem(timers))
    /\ sinceChange' = sinceChange + MinRem(timers)
    /\ UNCHANGED <<words, wordIdx, charIdx, deleting, paused, heroText, lastChange, nWraps>>
    /\ UNCHANGED notTyping

NextTyping ==
    \/ TypingTick
    \/ TypingResume
    \/ AdvanceTyping

InitSpecTyping ==
    /\ last = "init"
    /\ lastArg = 0
    /\ InitTyping
    /\ IdleDebounce
    /\ IdleForm
    /\ IdleNav
    /\ IdleObs
    /\ IdleMenu

\* The timers fire and time passes.
SpecTyping == InitSpecTyping /\ [][NextTyping]_vars /\ WF_vars(NextTyping)

\* The phrase being typed or deleted.
Word == words[wordIdx + 1]

Grows == Len(heroText') = Len(heroText) + 1

Shrinks == Len(heroText') = Len(heroText) - 1

\* What every step keeps: the text changes by one character at a time and
\* is a prefix of the current phrase; it grows from the empty text on, 95 ms
\* after the change before (1200 ms after the start for the very first
\* character), up to the full phrase; it shrinks from the full phrase on,
\* 2000 ms after the phrase became full and 55 ms after a shrink, down to
\* the empty text; and the phrase changes only when the text becomes empty,
\* to the next phrase of the list, the first following the last.
TypingCycle ==
    /\ heroText' # heroText => Grows \/ Shrinks
    /\ Grows =>
         /\ heroText' = SubSeq(Word, 1, Len(heroText) + 1)
         /\ heroText = <<>> \/ lastChange = "grow"
         /\ sinceChange = IF lastChange = "none" THEN StartMs ELSE TypeSpeed
    /\ Shrinks =>
         /\ heroText' = SubSeq(Word, 1, Len(heroText) - 1)
         /\ heroText = Word \/ lastChange = "shrink"
         /\ sinceChange = IF heroText = Word THEN PauseMs ELSE DeleteSpeed
    /\ heroText = Word => ~Grows
    /\ wordIdx' = IF Shrinks /\ heroText' = <<>>
                  THEN (wordIdx + 1) % Len(words)
                  ELSE wordIdx

\* C10: starting from the empty text, for each phrase in the order of the
\* list the text grows by exactly one character per 95 ms tick until it is
\* the full phrase, stays so for 2000 ms, then shrinks by exactly one
\* character per 55 ms tick until it is empty, and then the next phrase
\* (index + 1 modulo the length of the list) is typed; this goes on for
\* ever: every phrase is shown in full again and again, the only phrase of
\* a list of one included.
C10_TypingCycle ==
    /\ heroText = <<>> /\ wordIdx = 0
    /\ [][TypingCycle]_vars
    /\ \A ws \in WordLists : \A i \in DOMAIN ws :
           []<>(words = ws => (wordIdx = i - 1 /\ heroText = ws[i]))
    /\ []<>(heroText = <<>>)

\* The last phrase of the list has been typed, kept for 2000 ms and deleted,
\* and the first phrase is being typed again.
C10_Witness ==
    /\ Len(words) = 4
    /\ wordIdx = 0
    /\ lastChange = "grow"
    /\ heroText = SubSeq(SoftwareDeveloper, 1, 8)
    /\ sinceChange = TypeSpeed
    /\ nWraps > 0

----------------------------------------------------------------------------
(* initHamburger(), lines 130-153, and the resize handler, lines 463-474.   *)

\* debounce(fn, delay = 100): the resize handler passes no delay.
ResizeDelay == 100

\* window.innerWidth > 768
MobileMax == 768

Widths == {MobileMax - 1, MobileMax, MobileMax + 1}

\* A mutant of Overflow: the page scroll is never locked.
OverflowNever(isOpen) == ""

\* isOpen ? 'hidden' : ''
Overflow(isOpen) == IF isOpen THEN "hidden" ELSE ""

\* String(isOpen)
String(b) == IF b THEN "true" ELSE "false"

InitMenu ==
    /\ hasHamburger \in BOOLEAN
    /\ hasMenu \in BOOLEAN
    /\ hasLinks \in BOOLEAN
    /\ menuOpen = FALSE
    /\ btnOpen = FALSE
    /\ ariaExpanded \in {"unset", "false"}
    /\ overflow = ""
    /\ innerWidth \in Widths
    /\ nClicks = 0
    /\ delay = ResizeDelay
    /\ timer = 0
    /\ timers = {}

\* A click on the hamburger button, lines 135-142; initHamburger has added
\* the listener only if both elements exist.
HamburgerClick ==
    /\ hasHamburger /\ hasMenu
    /\ menuOpen' = ~menuOpen
    /\ btnOpen' = menuOpen'
    /\ ariaExpanded' = String(menuOpen')
    /\ overflow' = Overflow(menuOpen')
    /\ nClicks' = Min({nClicks + 1, MaxClicks})
    /\ UNCHANGED <<hasHamburger, hasMenu, hasLinks, innerWidth, delay, timer, timers>>
    /\ UNCHANGED notMenu

\* A click on a mobile link, lines 146-151.
MobileLinkClick ==
    /\ hasHamburger /\ hasMenu /\ hasLinks
    /\ menuOpen' = FALSE
    /\ btnOpen' = FALSE
    /\ ariaExpanded' = "false"
    /\ overflow' = ""
    /\ UNCHANGED <<hasHamburger, hasMenu, hasLinks, innerWidth, nClicks, delay, timer,
                   timers>>
    /\ UNCHANGED notMenu

\* The window is resized to width w: a resize event calls the debounced handler.
Resize(w) ==
    /\ innerWidth' = w
    /\ timers' = WrapperTimers("resize", 0)
    /\ timer' = WrapperTimer
    /\ UNCHANGED <<hasHamburger, hasMenu, hasLinks, menuOpen, btnOpen, ariaExpanded,
                   overflow, nClicks, delay>>
    /\ UNCHANGED notMenu

\* The debounced callback, lines 463-474.
ResizeFire ==
    \E t \in Due(timers) :
        /\ t.cb = "resize"
        /\ timers' = AfterRun(timers, t)
        /\ IF innerWidth > MobileMax /\ hasMenu /\ menuOpen
           THEN /\ menuOpen' = FALSE
                /\ btnOpen' = IF hasHamburger THEN FALSE ELSE btnOpen
                /\ overflow' = ""
           ELSE UNCHANGED <<menuOpen, btnOpen, overflow>>
        /\ UNCHANGED <<hasHamburger, hasMenu, hasLinks, ariaExpanded, innerWidth,
                       nClicks, delay, timer>>
        /\ UNCHANGED notMenu

MenuStep == ResizeDelay \div Grain

\* Time passes, at most to the next due timer.
AdvanceMenu ==
    /\ timers # {}
    /\ Due(timers) = {}
    /\ timers' = Elapse(timers, Min({MenuStep, MinRem(timers)}))
    /\ UNCHANGED <<delay, timer, menuVars>>
    /\ UNCHANGED notMenu

NextMenu ==
    \/ HamburgerClick
    \/ MobileLinkClick
    \/ \E w \in Widths : Resize(w)
    \/ ResizeFire
    \/ AdvanceMenu

InitSpecMenu ==
    /\ last = "init"
    /\ lastArg = 0
    /\ InitMenu
    /\ nCalls = 0
    /\ sinceCall = 0
    /\ lastArgs = 0
    /\ burstLen = 0
    /\ burstFires = 0
    /\ fnArgs = 0
    /\ fnAt = 0
    /\ IdleForm
    /\ IdleNav
    /\ IdleObs
    /\ IdleTyping

SpecMenu == InitSpecMenu /\ [][NextMenu]_vars

\* C11: whatever the order of hamburger clicks, mobile-link clicks and
\* debounced resize events, the page scroll is locked (body overflow
\* 'hidden') exactly when the menu panel has the 'open' class, and the
\* button has the 'open' class exactly when the panel has it.
C11_ScrollLock ==
    /\ (overflow = "hidden") <=> menuOpen
    /\ btnOpen <=> menuOpen

\* The menu was opened, closed by the resize handler and opened again on a
\* wide window, with a resize still pending.
C11_Witness ==
    /\ menuOpen
    /\ overflow = "hidden"
    /\ nClicks = 2
    /\ ariaExpanded = "true"
    /\ ~hasLinks
    /\ innerWidth > MobileMax
    /\ timers # {}

\* C17: after at least one click on the hamburger button, whatever clicks
\* and resize events follow, aria-expanded is 'true' exactly when the menu
\* panel has the 'open' class.
C17_AriaExpanded ==
    nClicks > 0 => ((ariaExpanded = "true") <=> menuOpen)

----------------------------------------------------------------------------
\* C1: in a burst of wrapper calls (each less than `delay` ms after the
\* previous one) fn is not invoked while the burst lasts, and once more than
\* `delay` ms have passed since the last call fn has been invoked exactly
\* once, `delay` ms after the last call and with the last call's arguments.
C1_DebounceBurst ==
    nCalls > 0 =>
        /\ burstFires <= 1
        /\ sinceCall < delay => burstFires = 0
        /\ burstFires = 1 => fnAt = delay /\ fnArgs = lastArgs
        /\ sinceCall > delay => burstFires = 1

\* A burst of three calls with different arguments has been answered.
C1_Witness ==
    /\ burstLen >= 3
    /\ delay >= 2
    /\ burstFires = 1
    /\ sinceCall > delay
    /\ fnArgs = 2
    /\ last = "tick"

\* The pending invocations of fn.
FnTimers(ts) == {t \in ts : t.cb = "fn"}

\* fn is invoked in this step.
FnStep == burstFires' = burstFires + 1

\* C13: whatever the sequence of wrapper calls, fn is never invoked less than
\* `delay` ms after the most recent call, at most one invocation of fn is
\* pending at any time, and fn is not invoked twice without a wrapper call
\* in between.
C13_QuietPeriod ==
    [][/\ Cardinality(FnTimers(timers')) <= 1
       /\ FnStep => /\ nCalls > 0
                    /\ sinceCall >= delay
                    /\ burstFires = 0]_vars

\* fn has answered a call that came alone, after two earlier calls.
C13_Witness ==
    /\ nCalls = 3
    /\ burstLen = 1
    /\ burstFires = 1
    /\ delay = MaxDelay
    /\ fnAt = delay
    /\ last = "fn"

----------------------------------------------------------------------------
(* The counter animation: step size and suffix.                             *)

\* The number the count stands at before a step: 0 until the first tick.
CountedTo(c) == IF counterTicks[c] = 0 THEN 0 ELSE Shown(c)

\* ceil(t / 35), from its definition: the least k with 35 * k >= t.
StepFor(t) == CHOOSE k \in 0..t : k * CounterSteps >= t /\ (k - 1) * CounterSteps < t

\* C14 as stated: for every positive target each tick raises the number
\* shown by exactly ceil(target / 35), from 0 until the target is reached.
C14_ExactStep ==
    [][\A c \in Counters :
          (Target(c) > 0 /\ TickStep(c)) =>
              Shown(c)' = CountedTo(c) + StepFor(Target(c))]_vars

\* C14, amended: for every positive target each tick raises the number shown
\* by ceil(target / 35), from 0, except that the tick that reaches the target
\* raises it by what is left to the target, which may be less.
C14_ClampedStep ==
    [][\A c \in Counters :
          (Target(c) > 0 /\ TickStep(c)) =>
              Shown(c)' = Min({CountedTo(c) + StepFor(Target(c)), Target(c)})]_vars

\* The count to 37 has ended: 18 ticks of 2 and a last tick of 1.
C14_Witness ==
    /\ counterOrig[1] = <<"3", "7", "%">>
    /\ counterText[1] = <<"3", "7", "%">>
    /\ counterTicks[1] = 19
    /\ timers = {}

\* The text is digits that read as a positive integer, then a suffix
\* without digits.
IntegerWithSuffix(txt) ==
    \E k \in 1..Len(txt) :
        /\ \A i \in 1..k : IsDigit(txt[i])
        /\ \A i \in (k + 1)..Len(txt) : ~IsDigit(txt[i])
        /\ ParseInt(SubSeq(txt, 1, k)) > 0

\* The text is a decimal numeral followed by the suffix suf.
NumberWith(txt, suf) ==
    /\ Len(txt) > Len(suf)
    /\ SubSeq(txt, Len(txt) - Len(suf) + 1, Len(txt)) = suf
    /\ \A i \in 1..(Len(txt) - Len(suf)) : IsDigit(txt[i])

\* C15: for a counter whose text is a positive integer followed by a
\* non-digit suffix, every text a tick displays is a number followed by
\* that same suffix, and the text displayed last is the original text.
C15_SuffixRoundTrip ==
    [][\A c \in Counters :
          (IntegerWithSuffix(counterOrig[c]) /\ TickStep(c)) =>
              /\ NumberWith(counterText'[c], NonDigits(counterOrig[c]))
              /\ CountTimers(timers', c) = {} => counterText'[c] = counterOrig[c]]_vars

----------------------------------------------------------------------------
(* The navbar's 'scrolled' class.                                           *)

\* The page as initNavbar() can find it: loaded at any scroll position, the
\* navbar with or without the class, and the first run scheduled by line 102.
InitScrolled ==
    /\ sections \in SeqsUpTo([id : SectionIds, offsetTop : OffsetTops], 1)
    /\ navLinks \in SeqsUpTo(Hrefs, 1)
    /\ innerHeight \in InnerHeights
    /\ scrollY \in ScrollYs
    /\ navActive \in SUBSET (1..Len(navLinks))
    /\ navScrolled \in BOOLEAN
    /\ delay = NavDelay
    /\ timer = NewId({}, {0})
    /\ timers = SetTimeout({}, {0}, "handleScroll", 0, NavDelay)

InitSpecScrolled ==
    /\ last = "init"
    /\ lastArg = 0
    /\ InitScrolled
    /\ nCalls = 0
    /\ sinceCall = 0
    /\ lastArgs = 0
    /\ burstLen = 0
    /\ burstFires = 0
    /\ fnArgs = 0
    /\ fnAt = 0
    /\ IdleForm
    /\ IdleObs
    /\ IdleTyping
    /\ IdleMenu

SpecScrolled == InitSpecScrolled /\ [][NextNav]_vars

\* A debounced run of the scroll handler is pending.
HandlerPending == \E t \in timers : t.cb = "handleScroll"

\* C16: whenever no debounced run of the scroll handler is pending (20 ms
\* have passed since startup and since the last scroll event), the navbar
\* has the 'scrolled' class exactly when the page is scrolled by more than
\* 60 px: the handler reads the scroll position when it runs.
C16_ScrolledSettles ==
    ~HandlerPending => (navScrolled <=> scrollY > ScrolledPast)

\* The handler has run with the page at exactly 60 px, on a page without
\* sections or links: the class is off.
C16_Witness ==
    /\ ~HandlerPending
    /\ last = "handleScroll"
    /\ scrollY = ScrolledPast
    /\ ~navScrolled
    /\ sections = <<>>
    /\ navLinks = <<>>

----------------------------------------------------------------------------
(* The typing effect's timer chain.                                         *)

\* The timers of the effect: the next tick, or the end of the pause.
TypingTimers == {t \in timers : t.cb \in {"tick", "resume"}}

\* C20: in every state from the start of the effect on exactly one typing
\* timer is pending (the chain neither stalls nor forks, the 2000 ms pause
\* included), 0 <= charIdx <= length of the current phrase, and the text
\* displayed is the first charIdx characters of the current phrase.
C20_OneTimerChain ==
    /\ Cardinality(TypingTimers) = 1
    /\ 0 <= charIdx /\ charIdx <= Len(Word)
    /\ heroText = SubSeq(Word, 1, charIdx)

\* The last phrase of the list is shown in full and its pause has run out.
C20_Witness ==
    /\ Len(words) = 4
    /\ wordIdx = 3
    /\ paused
    /\ charIdx = Len(SEOContentManager)
    /\ heroText = SEOContentManager
    /\ \E t \in timers : t.cb = "resume" /\ t.rem = 0

====
